---- MODULE Spec2Model ----
(***************************************************************************)
(* EcoVision climate visualizer, frontend.                                 *)
(*                                                                         *)
(*   App.jsx        App (state, fetchData, handleApplyFilters, render),    *)
(*                  TrendAnalysis, TrendStat, getTrendIcon                 *)
(*   part_000       Filters (form state, sync effect, handleChange,        *)
(*                  handleApply, handleClear)                              *)
(*   part_001       SummaryTable                                           *)
(*   api.js         buildQueryString, getClimateData/Summary/Trends        *)
(*                                                                         *)
(* JSON / JavaScript values are tagged records: [t |-> "null"],            *)
(* [t |-> "undefined"], [t |-> "bool", b], [t |-> "num", n, d] (the        *)
(* rational n/d), [t |-> "str", s], [t |-> "array", items] and             *)
(* [t |-> "object", entries] with entries a sequence of [k, v] in          *)
(* insertion order (the order Object.entries walks).                       *)
(***************************************************************************)
EXTENDS Integers, Sequences, FiniteSets, TLC

VARIABLES
    \* ---- App (App.jsx 9-23)
    filters,        \* App.filters
    climateData,    \* App.climateData (array)
    trendData,      \* App.trendData (null or object)
    summaryData,    \* App.summaryData (null or object)
    loading,        \* App.loading
    error,          \* App.error (null or string)
    \* ---- Filters (part_000 18-28)
    localFilters,   \* Filters.localFilters
    locations,      \* Filters.locations
    metrics,        \* Filters.metrics
    formLoading,    \* Filters.loading
    syncPending,    \* the [filters] effect (part_000 47-56) is scheduled
    \* ---- the network
    pending,        \* fetchData calls awaiting their response, each with the
                    \* appliedFilters.analysisType its continuation reads
    lastRequest,    \* the request most recently handed to fetch()
    nextId,         \* number of the next fetchData call
    edits,          \* number of handleChange calls so far
    \* ---- a component or helper applied to drawn inputs
    probe,          \* which function is applied
    input,          \* its arguments
    output          \* its result, once applied

appVars == <<filters, climateData, trendData, summaryData, loading, error>>
formVars == <<localFilters, locations, metrics, formLoading, syncPending>>
netVars == <<pending, lastRequest, nextId, edits>>
probeVars == <<probe, input, output>>
vars == <<appVars, formVars, netVars, probeVars>>

-----------------------------------------------------------------------------
\* Bounds of the model

\* fetchData calls explored in one run
MaxRequests == 2
\* handleChange calls explored in one run
MaxEdits == 2
\* metrics in one /trends or /summary payload handed to a component
MaxMetrics == 2
\* observations in one filtered window
MaxObs == 3
\* entries of one params object handed to an api.js helper
MaxParams == 2

-----------------------------------------------------------------------------
\* JavaScript values

JNull == [t |-> "null"]
JUndef == [t |-> "undefined"]
JBool(b) == [t |-> "bool", b |-> b]
JNum(n, d) == [t |-> "num", n |-> n, d |-> d]
JInt(i) == JNum(i, 1)
JStr(s) == [t |-> "str", s |-> s]
JArr(items) == [t |-> "array", items |-> items]
JObj(entries) == [t |-> "object", entries |-> entries]
Entry(k, v) == [k |-> k, v |-> v]

\* ToBoolean
Truthy(x) ==
    CASE x.t = "null" -> FALSE
      [] x.t = "undefined" -> FALSE
      [] x.t = "bool" -> x.b
      [] x.t = "num" -> x.n # 0
      [] x.t = "str" -> x.s # ""
      [] OTHER -> TRUE

\* x === null || x === undefined
Nullish(x) == x.t \in {"null", "undefined"}

\* typeof x === 'object' (true of null, arrays and objects)
TypeofObject(x) == x.t \in {"null", "array", "object"}

\* Object.keys(x): the indices of an array, the keys of an object
ObjectKeys(x) ==
    CASE x.t = "array" -> [i \in 1..Len(x.items) |-> i]
      [] x.t = "object" -> [i \in 1..Len(x.entries) |-> x.entries[i].k]
      [] OTHER -> <<>>

\* Object.entries(x) of an object
ObjectEntries(x) == IF x.t = "object" THEN x.entries ELSE <<>>

HasKey(x, key) == x.t = "object" /\ \E i \in 1..Len(x.entries) : x.entries[i].k = key

\* x.key, undefined when the property is absent
Get(x, key) ==
    IF HasKey(x, key)
    THEN x.entries[CHOOSE i \in 1..Len(x.entries) : x.entries[i].k = key].v
    ELSE JUndef

-----------------------------------------------------------------------------
\* Numbers and their text.  A number is the exact rational n/d (d > 0); a
\* double of the running program is the nearest such value.

NaN == [t |-> "nan"]

\* Number(x), and the ToNumber of x * 100 and x > 3
ToNumber(x) ==
    CASE x.t = "num" -> x
      [] x.t = "null" -> JInt(0)
      [] x.t = "bool" -> JInt(IF x.b THEN 1 ELSE 0)
      [] OTHER -> NaN

\* x * k
Times(x, k) == IF ToNumber(x).t = "nan" THEN NaN ELSE JNum(ToNumber(x).n * k, ToNumber(x).d)

\* x > k; false of NaN
GreaterThan(x, k) == ToNumber(x).t = "num" /\ ToNumber(x).n > k * ToNumber(x).d

Pow10(digits) == IF digits = 0 THEN 1 ELSE IF digits = 1 THEN 10 ELSE 100

\* A piece of rendered text: a literal, or the decimal numeral scaled / 10^digits
\* written with `digits` fraction digits
Lit(str) == [lit |-> str]
Fixed(scaled, digits) == [fixed |-> scaled, digits |-> digits]

\* The integer nearest to |n| * 10^digits / d, the larger one on a tie
RoundScaled(n, d, digits) == (2 * n * Pow10(digits) + d) \div (2 * d)

\* Number.prototype.toFixed: "NaN" for NaN, else the sign and the rounded magnitude
ToFixed(x, digits) ==
    IF x.t = "nan" THEN Lit("NaN")
    ELSE IF x.n < 0 THEN Fixed(0 - RoundScaled(0 - x.n, x.d, digits), digits)
    ELSE Fixed(RoundScaled(x.n, x.d, digits), digits)

\* Number(text) of a text toFixed produced
NumberOfText(part) ==
    IF "fixed" \in DOMAIN part THEN JNum(part.fixed, Pow10(part.digits)) ELSE NaN

\* String.prototype.toLowerCase on the direction labels
ToLowerCase(str) ==
    CASE str = "Increasing" -> "increasing"
      [] str = "Decreasing" -> "decreasing"
      [] str = "Stable" -> "stable"
      [] OTHER -> str

-----------------------------------------------------------------------------
\* Filters: the option lists (part_000)

QUALITY_OPTIONS ==
    << [value |-> "", label |-> "Any"],
       [value |-> "excellent", label |-> "Excellent"],
       [value |-> "good", label |-> "Good"],
       [value |-> "poor", label |-> "Poor"] >>

ANALYSIS_TYPES ==
    << [value |-> "raw", label |-> "Climate Data"],
       [value |-> "weighted", label |-> "Summary"],
       [value |-> "trends", label |-> "Trends"] >>

\* README: quality_threshold (one of: excellent, good, questionable, poor)
QualityGrades == {"excellent", "good", "questionable", "poor"}

\* What GET /locations and GET /metrics deliver (locRes.data, metRes.data)
LocationRows == << [id |-> "1", name |-> "Omaha", region |-> "NE"] >>
MetricRows == << [id |-> "1", name |-> "temperature", display_name |-> "Temperature"] >>

\* The values a <input type="date"> hands to onChange
DateValues == {"", "2023-01-01"}

FilterFields ==
    {"locationId", "startDate", "endDate", "metric", "qualityThreshold", "analysisType"}

\* The initial filters of App (App.jsx 14-21) and `cleared` of handleClear
ClearedFilters ==
    [locationId |-> "", startDate |-> "", endDate |-> "", metric |-> "",
     qualityThreshold |-> "", analysisType |-> "raw"]

\* FromParent that resets the analysis type instead of copying it
FromParent_RawOnly(f) ==
    [locationId |-> f.locationId,
     startDate |-> f.startDate,
     endDate |-> f.endDate,
     metric |-> f.metric,
     qualityThreshold |-> f.qualityThreshold,
     analysisType |-> "raw"]

\* The object built by useState (18-25) and by the sync effect (48-55)
FromParent(f) ==
    [locationId |-> f.locationId,
     startDate |-> f.startDate,
     endDate |-> f.endDate,
     metric |-> f.metric,
     qualityThreshold |-> f.qualityThreshold,
     analysisType |-> IF f.analysisType # "" THEN f.analysisType ELSE "raw"]

\* The values the control of `field` can hand to handleChange
FieldOptions(field) ==
    CASE field = "locationId" ->
            {""} \cup {locations[i].id : i \in 1..Len(locations)}
      [] field = "metric" ->
            {""} \cup {metrics[i].name : i \in 1..Len(metrics)}
      [] field = "qualityThreshold" ->
            {QUALITY_OPTIONS[i].value : i \in 1..Len(QUALITY_OPTIONS)}
      [] field = "analysisType" ->
            {ANALYSIS_TYPES[i].value : i \in 1..Len(ANALYSIS_TYPES)}
      [] OTHER -> DateValues

\* The location and metric selects carry disabled={loading}
FieldDisabled(field) == field \in {"locationId", "metric"} /\ formLoading

-----------------------------------------------------------------------------
\* App.fetchData, up to the await (App.jsx 25-44)

\* Param without the `value &&` test
Param_Always(name, value) == << <<name, value>> >>

\* One spread of the URLSearchParams initialiser: ...(value && { name: value })
Param(name, value) == IF value # "" THEN << <<name, value>> >> ELSE <<>>

\* QueryParams that also sends the analysis type
QueryParams_WithAnalysis(appliedFilters) ==
    Param("location_id", appliedFilters.locationId)
    \o Param("start_date", appliedFilters.startDate)
    \o Param("end_date", appliedFilters.endDate)
    \o Param("metric", appliedFilters.metric)
    \o Param("quality_threshold", appliedFilters.qualityThreshold)
    \o Param("analysis_type", appliedFilters.analysisType)

\* The URLSearchParams of lines 29-35
QueryParams(appliedFilters) ==
    Param("location_id", appliedFilters.locationId)
    \o Param("start_date", appliedFilters.startDate)
    \o Param("end_date", appliedFilters.endDate)
    \o Param("metric", appliedFilters.metric)
    \o Param("quality_threshold", appliedFilters.qualityThreshold)

\* Endpoint with the two analysis endpoints exchanged
Endpoint_Exchanged(appliedFilters) ==
    IF appliedFilters.analysisType = "trends" THEN "/api/v1/summary"
    ELSE IF appliedFilters.analysisType = "weighted" THEN "/api/v1/trends"
    ELSE "/api/v1/climate"

\* The endpoint chosen in lines 37-42
Endpoint(appliedFilters) ==
    IF appliedFilters.analysisType = "trends" THEN "/api/v1/trends"
    ELSE IF appliedFilters.analysisType = "weighted" THEN "/api/v1/summary"
    ELSE "/api/v1/climate"

NoRequest == [id |-> 0, endpoint |-> "", query |-> <<>>]

\* setLoading(true); setError(null); fetch(`${endpoint}?${queryParams}`)
FetchDataStart(appliedFilters) ==
    /\ nextId <= MaxRequests
    /\ loading' = TRUE
    /\ error' = JNull
    /\ lastRequest' = [id |-> nextId,
                       endpoint |-> Endpoint(appliedFilters),
                       query |-> QueryParams(appliedFilters)]
    /\ pending' = pending \cup {[id |-> nextId, analysisType |-> appliedFilters.analysisType]}
    /\ nextId' = nextId + 1
    /\ UNCHANGED <<climateData, trendData, summaryData>>

\* handleApplyFilters (App.jsx 83-86)
HandleApplyFilters(newFilters) ==
    /\ filters' = newFilters
    /\ FetchDataStart(newFilters)
    /\ syncPending' = TRUE

-----------------------------------------------------------------------------
\* What the backend may answer

\* One raw observation row of GET /climate
ClimateRow ==
    JObj(<< Entry("date", JStr("2023-01-01")), Entry("value", JNum(105, 10)),
            Entry("quality", JStr("good")) >>)

\* One metric of GET /trends: {trend, anomalies, seasonality}
Analysis(trend, anomalies, seasonality) ==
    JObj(<< Entry("trend", trend), Entry("anomalies", JArr(anomalies)),
            Entry("seasonality", seasonality) >>)

Trend(direction, rate, unit, confidence) ==
    JObj(<< Entry("direction", direction), Entry("rate", rate),
            Entry("unit", unit), Entry("confidence", confidence) >>)

Anomaly(date, value, deviation) ==
    JObj(<< Entry("date", JStr(date)), Entry("value", value),
            Entry("deviation", deviation) >>)

Seasonality(detected, period, confidence, pattern) ==
    JObj(<< Entry("detected", detected), Entry("period", period),
            Entry("confidence", confidence), Entry("pattern", pattern) >>)

Season(avg, trend) == JObj(<< Entry("avg", avg), Entry("trend", trend) >>)

\* One metric of GET /summary
Stats(min, max, avg, weighted_avg, unit, quality_distribution) ==
    JObj(<< Entry("min", min), Entry("max", max), Entry("avg", avg),
            Entry("weighted_avg", weighted_avg), Entry("unit", unit),
            Entry("quality_distribution", quality_distribution) >>)

UnavailableTrend == Trend(JNull, JNull, JStr("celsius"), JNull)
NoSeasonality == Seasonality(JBool(FALSE), JNull, JNull, JObj(<<>>))

-----------------------------------------------------------------------------
\* The Weighted Summary Calculator that answers GET /summary (backend; its
\* source is not part of the frontend sources: rendered from the design
\* document, sections 3, 4.1, 4.2 and 8)

GradeOrder == <<"excellent", "good", "questionable", "poor">>

\* weight_of(grade), in tenths: excellent 1.0, good 0.8, poor 0.3 as in the
\* document's scenario, questionable between good and poor
WeightOf(grade) ==
    CASE grade = "excellent" -> 10
      [] grade = "good" -> 8
      [] grade = "questionable" -> 5
      [] grade = "poor" -> 3

RECURSIVE SumValues(_)
\* The sum of the values of the observations
SumValues(obs) ==
    IF obs = <<>> THEN 0 ELSE Head(obs).value + SumValues(Tail(obs))

RECURSIVE SumWeights(_)
\* The sum of weight_of(quality) over the observations
SumWeights(obs) ==
    IF obs = <<>> THEN 0 ELSE WeightOf(Head(obs).quality) + SumWeights(Tail(obs))

RECURSIVE SumWeightedValues(_)
\* The sum of value * weight_of(quality) over the observations
SumWeightedValues(obs) ==
    IF obs = <<>> THEN 0
    ELSE Head(obs).value * WeightOf(Head(obs).quality) + SumWeightedValues(Tail(obs))

RECURSIVE MinOver(_)
MinOver(obs) ==
    IF Len(obs) = 1 THEN obs[1].value
    ELSE IF obs[1].value <= MinOver(Tail(obs)) THEN obs[1].value ELSE MinOver(Tail(obs))

RECURSIVE MaxOver(_)
MaxOver(obs) ==
    IF Len(obs) = 1 THEN obs[1].value
    ELSE IF obs[1].value >= MaxOver(Tail(obs)) THEN obs[1].value ELSE MaxOver(Tail(obs))

\* Sum of the weights of the observations of one grade
GradeWeight(obs, grade) ==
    SumWeights(SelectSeq(obs, LAMBDA o : o.quality = grade))

\* quality_distribution[g] = weight of grade g / weight of all, for the grades
\* that occur
QualityDistribution(obs) ==
    JObj([i \in 1..Len(SelectSeq(GradeOrder, LAMBDA g : GradeWeight(obs, g) > 0)) |->
            Entry(SelectSeq(GradeOrder, LAMBDA g : GradeWeight(obs, g) > 0)[i],
                  JNum(GradeWeight(obs, SelectSeq(GradeOrder, LAMBDA g : GradeWeight(obs, g) > 0)[i]),
                       SumWeights(obs)))])

\* The SummaryResult of a non-empty window
Summary(obs, unit) ==
    Stats(JInt(MinOver(obs)), JInt(MaxOver(obs)),
          JNum(SumValues(obs), Len(obs)),
          JNum(SumWeightedValues(obs), SumWeights(obs)),
          JStr(unit), QualityDistribution(obs))

\* The data of the answer for one metric: no metric at all for an empty window
SummaryData(obs) ==
    IF obs = <<>> THEN JObj(<<>>)
    ELSE JObj(<< Entry("temperature", Summary(obs, "celsius")) >>)

-----------------------------------------------------------------------------
\* The data field of the answers the App runs are fed
ClimatePayloads == { JArr(<< ClimateRow >>) }

TrendPayloads ==
    { JObj(<< Entry("temperature",
                    Analysis(Trend(JStr("increasing"), JNum(5, 10), JStr("celsius"), JNum(9, 10)),
                             << Anomaly("2023-03-01", JNum(400, 10), JNum(35, 10)) >>,
                             NoSeasonality)) >>),
      JObj(<< Entry("temperature", Analysis(UnavailableTrend, <<>>, NoSeasonality)) >>) }

\* The window of the design document's scenario
ScenarioWindow ==
    << [value |-> 10, quality |-> "good"], [value |-> 12, quality |-> "excellent"],
       [value |-> 14, quality |-> "poor"] >>

SummaryPayloads == { SummaryData(ScenarioWindow) }

\* Parsed bodies: null, an envelope without data, an envelope with data
Bodies(payloads) ==
    {JNull, JObj(<<>>)}
    \cup {JObj(<< Entry("data", d) >>) :
            d \in {JArr(<<>>), JObj(<<>>)} \cup payloads}

\* fetch() rejects, or resolves to a response that is ok or not
ResponsesWith(payloads) ==
    {[kind |-> "reject", message |-> m] : m \in {"Failed to fetch", ""}}
    \cup {[kind |-> "http", ok |-> FALSE, status |-> "500",
           statusText |-> "INTERNAL SERVER ERROR"]}
    \cup {[kind |-> "http", ok |-> TRUE, json |-> b] : b \in Bodies(payloads)}

ClimateResponses == ResponsesWith(ClimatePayloads)

TrendResponses == ResponsesWith(TrendPayloads)

SummaryResponses == ResponsesWith(SummaryPayloads)

\* The outcomes of the request fetchData issues for an analysis type
Responses(analysisType) ==
    IF analysisType = "trends" THEN TrendResponses
    ELSE IF analysisType = "weighted" THEN SummaryResponses
    ELSE ClimateResponses

-----------------------------------------------------------------------------
\* App.fetchData, after the await (App.jsx 45-80)

NoDataMessage == "No data available for the selected filters."

\* `API error: ${response.status} ${response.statusText}`
ApiErrorMessage(resp) ==
    IF resp.status = "500" /\ resp.statusText = "INTERNAL SERVER ERROR"
    THEN "API error: 500 INTERNAL SERVER ERROR"
    ELSE "API error: 429 TOO MANY REQUESTS"

\* IsEmptyData without the test for an object with no keys
IsEmptyData_ArraysOnly(data) ==
    \/ ~Truthy(data)
    \/ ~Truthy(Get(data, "data"))
    \/ (Get(data, "data").t = "array" /\ Len(Get(data, "data").items) = 0)

\* The condition of line 51
IsEmptyData(data) ==
    \/ ~Truthy(data)
    \/ ~Truthy(Get(data, "data"))
    \/ (Get(data, "data").t = "array" /\ Len(Get(data, "data").items) = 0)
    \/ (TypeofObject(Get(data, "data")) /\ Len(ObjectKeys(Get(data, "data"))) = 0)

\* The catch block (73-77): error.message || 'Error fetching data.'
FetchDataCatch(message) ==
    /\ error' = JStr(IF message # "" THEN message ELSE "Error fetching data.")
    /\ trendData' = JNull
    /\ summaryData' = JNull
    /\ climateData' = JArr(<<>>)

\* Lines 50-58
FetchDataEmpty ==
    /\ error' = JStr(NoDataMessage)
    /\ trendData' = JNull
    /\ summaryData' = JNull
    /\ climateData' = JArr(<<>>)

\* FetchDataStore that sets only the dataset of the analysis type
FetchDataStore_KeepOthers(analysisType, data) ==
    /\ IF analysisType = "trends"
       THEN /\ trendData' = Get(data, "data")
            /\ UNCHANGED <<summaryData, climateData>>
       ELSE IF analysisType = "weighted"
       THEN /\ summaryData' = Get(data, "data")
            /\ UNCHANGED <<trendData, climateData>>
       ELSE /\ climateData' = Get(data, "data")
            /\ UNCHANGED <<trendData, summaryData>>
    /\ UNCHANGED error

\* Lines 60-72
FetchDataStore(analysisType, data) ==
    /\ IF analysisType = "trends"
       THEN /\ trendData' = Get(data, "data")
            /\ summaryData' = JNull
            /\ climateData' = JArr(<<>>)
       ELSE IF analysisType = "weighted"
       THEN /\ summaryData' = Get(data, "data")
            /\ trendData' = JNull
            /\ climateData' = JArr(<<>>)
       ELSE /\ climateData' = Get(data, "data")
            /\ trendData' = JNull
            /\ summaryData' = JNull
    /\ UNCHANGED error

\* The continuation of one fetchData call on its response
FetchDataComplete(req, resp) ==
    /\ req \in pending
    /\ ~syncPending
    /\ pending' = pending \ {req}
    /\ IF resp.kind = "reject" THEN FetchDataCatch(resp.message)
       ELSE IF ~resp.ok THEN FetchDataCatch(ApiErrorMessage(resp))
       ELSE IF IsEmptyData(resp.json) THEN FetchDataEmpty
       ELSE FetchDataStore(req.analysisType, resp.json)
    /\ loading' = FALSE
    /\ UNCHANGED <<filters, formVars, lastRequest, nextId, edits, probeVars>>

-----------------------------------------------------------------------------
\* Filters (part_000)

\* fetchDropdowns (30-44): both lists arrive, or the catch empties both
FetchDropdownsDone(ok) ==
    /\ formLoading
    /\ locations' = IF ok THEN LocationRows ELSE <<>>
    /\ metrics' = IF ok THEN MetricRows ELSE <<>>
    /\ formLoading' = FALSE
    /\ UNCHANGED <<appVars, localFilters, syncPending, netVars, probeVars>>

\* The effect on [filters] (46-56)
SyncEffect ==
    /\ syncPending
    /\ localFilters' = FromParent(filters)
    /\ syncPending' = FALSE
    /\ UNCHANGED <<appVars, locations, metrics, formLoading, netVars, probeVars>>

\* handleChange (58-61)
HandleChange(field, value) ==
    /\ ~syncPending
    /\ edits < MaxEdits
    /\ ~FieldDisabled(field)
    /\ value \in FieldOptions(field)
    /\ localFilters' = [localFilters EXCEPT ![field] = value]
    /\ edits' = edits + 1
    /\ UNCHANGED <<appVars, locations, metrics, formLoading, syncPending,
                   pending, lastRequest, nextId, probeVars>>

\* handleApply (63-68); the submit button carries disabled={loading}
HandleApply ==
    /\ ~syncPending
    /\ ~formLoading
    /\ HandleApplyFilters(localFilters)
    /\ UNCHANGED <<localFilters, locations, metrics, formLoading, edits, probeVars>>

\* handleClear (70-83); the button carries disabled={loading}
HandleClear ==
    /\ ~syncPending
    /\ ~formLoading
    /\ localFilters' = ClearedFilters
    /\ HandleApplyFilters(ClearedFilters)
    /\ UNCHANGED <<locations, metrics, formLoading, edits, probeVars>>

-----------------------------------------------------------------------------
\* TrendAnalysis (App.jsx 176-319).  The payload is taken to have the shape
\* of the /trends answer: every metric carries trend, anomalies and seasonality.

NA == Lit("N/A")
\* What `cond && (<div/>)` leaves in the tree when cond is falsy
Nothing == [kind |-> "nothing"]

\* A string-valued field shown as it is, `x ? x : "N/A"`
OrNA(x) == IF Truthy(x) THEN Lit(x.s) ELSE NA

\* getTrendIcon (305-317)
GetTrendIcon(direction) ==
    IF ~Truthy(direction) \/ direction.t # "str" THEN "null"
    ELSE CASE ToLowerCase(direction.s) = "increasing" -> "up-right"
           [] ToLowerCase(direction.s) = "decreasing" -> "down-right"
           [] ToLowerCase(direction.s) = "stable" -> "right"
           [] OTHER -> "null"

\* Rate of Change (205-209)
RateText(trend) ==
    IF Get(trend, "rate").t # "null" /\ Truthy(Get(trend, "unit"))
    THEN << ToFixed(ToNumber(Get(trend, "rate")), 2), Lit(" "),
            Lit(Get(trend, "unit").s), Lit("/month") >>
    ELSE << NA >>

\* ConfidenceText without its null test
ConfidenceText_Unguarded(confidence) == << ToFixed(Times(confidence, 100), 1), Lit("%") >>

\* Confidence (213-217 and 266-268): `${(c * 100).toFixed(1)}%`
ConfidenceText(confidence) ==
    IF confidence.t # "null"
    THEN << ToFixed(Times(confidence, 100), 1), Lit("%") >>
    ELSE << NA >>

\* One card of the Trend Overview (195-220)
TrendCard(metric, analysis) ==
    [metric |-> metric,
     direction |-> << OrNA(Get(Get(analysis, "trend"), "direction")) >>,
     icon |-> GetTrendIcon(Get(Get(analysis, "trend"), "direction")),
     rate |-> RateText(Get(analysis, "trend")),
     confidence |-> ConfidenceText(Get(Get(analysis, "trend"), "confidence"))]

\* SeverityClass with >= in place of >
SeverityClass_Inclusive(deviation) ==
    IF GreaterThan(deviation, 3) \/ ToNumber(deviation) = JInt(3)
    THEN "bg-red-100 text-red-800"
    ELSE "bg-yellow-100 text-yellow-800"

\* The badge class of one anomaly (238-240)
SeverityClass(deviation) ==
    IF GreaterThan(deviation, 3) THEN "bg-red-100 text-red-800"
    ELSE "bg-yellow-100 text-yellow-800"

\* One anomaly line (235-243)
AnomalyRow(anomaly) ==
    [date |-> Get(anomaly, "date").s,
     value |-> ToFixed(ToNumber(Get(anomaly, "value")), 2),
     class |-> SeverityClass(Get(anomaly, "deviation")),
     deviation |-> ToFixed(ToNumber(Get(anomaly, "deviation")), 2)]

\* One metric of Detected Anomalies (230-247)
AnomalyBlock(metric, analysis) ==
    IF Len(Get(analysis, "anomalies").items) > 0
    THEN [kind |-> "anomalies", metric |-> metric,
          rows |-> [i \in 1..Len(Get(analysis, "anomalies").items) |->
                        AnomalyRow(Get(analysis, "anomalies").items[i])]]
    ELSE Nothing

\* One season line (273-280)
SeasonRow(season, data) ==
    [season |-> season,
     avg |-> IF ~Nullish(Get(data, "avg"))
             THEN ToFixed(ToNumber(Get(data, "avg")), 2) ELSE NA,
     trend |-> OrNA(Get(data, "trend"))]

\* SeasonBlock testing the period in place of detected
SeasonBlock_ByPeriod(metric, analysis) ==
    IF Truthy(Get(Get(analysis, "seasonality"), "period"))
    THEN [kind |-> "seasonality", metric |-> metric,
          period |-> OrNA(Get(Get(analysis, "seasonality"), "period")),
          confidence |-> ConfidenceText(Get(Get(analysis, "seasonality"), "confidence")),
          pattern |-> <<>>]
    ELSE Nothing

\* One metric of Seasonal Patterns (257-285)
SeasonBlock(metric, analysis) ==
    IF Truthy(Get(Get(analysis, "seasonality"), "detected"))
    THEN [kind |-> "seasonality", metric |-> metric,
          period |-> OrNA(Get(Get(analysis, "seasonality"), "period")),
          confidence |-> ConfidenceText(Get(Get(analysis, "seasonality"), "confidence")),
          pattern |-> [i \in 1..Len(ObjectEntries(Get(Get(analysis, "seasonality"), "pattern"))) |->
                        SeasonRow(ObjectEntries(Get(Get(analysis, "seasonality"), "pattern"))[i].k,
                                  ObjectEntries(Get(Get(analysis, "seasonality"), "pattern"))[i].v)]]
    ELSE Nothing

\* The component: the skeleton while loading, nothing without data, else the
\* three sections, each mapped over Object.entries(data)
TrendAnalysis(data, isLoading) ==
    IF isLoading THEN [kind |-> "skeleton"]
    ELSE IF ~Truthy(data) THEN [kind |-> "null"]
    ELSE [kind |-> "view",
          cards |-> [i \in 1..Len(ObjectEntries(data)) |->
                        TrendCard(ObjectEntries(data)[i].k, ObjectEntries(data)[i].v)],
          anomalies |-> [i \in 1..Len(ObjectEntries(data)) |->
                        AnomalyBlock(ObjectEntries(data)[i].k, ObjectEntries(data)[i].v)],
          seasons |-> [i \in 1..Len(ObjectEntries(data)) |->
                        SeasonBlock(ObjectEntries(data)[i].k, ObjectEntries(data)[i].v)]]

-----------------------------------------------------------------------------
\* SummaryTable (part_001)

\* round2 with === null as its only test
Round2_NullOnly(v) == IF v.t = "null" THEN Lit("-") ELSE ToFixed(ToNumber(v), 2)

\* round2 (15)
Round2(v) == IF Nullish(v) THEN Lit("-") ELSE ToFixed(ToNumber(v), 2)

\* stats.unit ?? '-' (40)
UnitCell(stats) ==
    IF Nullish(Get(stats, "unit")) THEN Lit("-") ELSE Lit(Get(stats, "unit").s)

\* The badge class of one grade (47-55)
QualityClass(q) ==
    IF q = "excellent" THEN "bg-green-100 text-green-700"
    ELSE IF q = "good" THEN "bg-blue-100 text-blue-700"
    ELSE IF q = "questionable" THEN "bg-yellow-100 text-yellow-700"
    ELSE "bg-red-100 text-red-700"

\* The Quality Distribution cell (42-60): one badge per entry, or "-"
QualityCell(stats) ==
    IF Truthy(Get(stats, "quality_distribution"))
    THEN [i \in 1..Len(ObjectEntries(Get(stats, "quality_distribution"))) |->
            [grade |-> ObjectEntries(Get(stats, "quality_distribution"))[i].k,
             class |-> QualityClass(ObjectEntries(Get(stats, "quality_distribution"))[i].k),
             percent |-> << ToFixed(Times(ObjectEntries(Get(stats, "quality_distribution"))[i].v, 100), 2),
                            Lit("%") >>]]
    ELSE << Lit("-") >>

\* One table row (34-62)
SummaryRow(idx, metric, stats) ==
    [metric |-> metric,
     class |-> IF idx % 2 = 0 THEN "bg-gray-50" ELSE "",
     min |-> Round2(Get(stats, "min")),
     max |-> Round2(Get(stats, "max")),
     avg |-> Round2(Get(stats, "avg")),
     weighted_avg |-> Round2(Get(stats, "weighted_avg")),
     unit |-> UnitCell(stats),
     quality |-> QualityCell(stats)]

HasQuality(entry) == Truthy(Get(entry.v, "quality_distribution"))

\* metricsWithQuality (10-12)
MetricsWithQuality(data) == SelectSeq(ObjectEntries(data), HasQuality)

\* ChartValue with the percentage of the table cell
ChartValue_Percent(stats, grade) ==
    IF Nullish(Get(Get(stats, "quality_distribution"), grade))
    THEN NumberOfText(ToFixed(JInt(0), 2))
    ELSE NumberOfText(ToFixed(Times(Get(Get(stats, "quality_distribution"), grade), 100), 2))

\* One bar: Number((stats.quality_distribution?.grade ?? 0).toFixed(2)) (80, 87, 94, 101)
ChartValue(stats, grade) ==
    IF Nullish(Get(Get(stats, "quality_distribution"), grade))
    THEN NumberOfText(ToFixed(JInt(0), 2))
    ELSE NumberOfText(ToFixed(ToNumber(Get(Get(stats, "quality_distribution"), grade)), 2))

\* One dataset of the bar chart (76-103)
Dataset(label, grade, withQuality) ==
    [label |-> label,
     data |-> [i \in 1..Len(withQuality) |-> ChartValue(withQuality[i].v, grade)]]

\* scales.y.max (121)
ChartYMax == 1

\* The bar chart (69-132), present when some metric has a quality_distribution
QualityChart(data) ==
    IF Len(MetricsWithQuality(data)) > 0
    THEN [kind |-> "bar",
          labels |-> [i \in 1..Len(MetricsWithQuality(data)) |-> MetricsWithQuality(data)[i].k],
          datasets |-> << Dataset("Excellent", "excellent", MetricsWithQuality(data)),
                          Dataset("Good", "good", MetricsWithQuality(data)),
                          Dataset("Questionable", "questionable", MetricsWithQuality(data)),
                          Dataset("Poor", "poor", MetricsWithQuality(data)) >>,
          yMin |-> 0,
          yMax |-> ChartYMax]
    ELSE Nothing

\* The component (5-135)
SummaryTable(data, isLoading) ==
    IF isLoading THEN [kind |-> "loading", text |-> "Loading summary..."]
    ELSE IF ~Truthy(data) \/ Len(ObjectKeys(data)) = 0
    THEN [kind |-> "empty", text |-> "No summary data."]
    ELSE [kind |-> "table",
          rows |-> [i \in 1..Len(ObjectEntries(data)) |->
                      SummaryRow(i - 1, ObjectEntries(data)[i].k, ObjectEntries(data)[i].v)],
          chart |-> QualityChart(data)]

-----------------------------------------------------------------------------
\* The application: Filters mounted in App, talking to the backend

NoProbe == probe = "none" /\ input = JNull /\ output = JNull

InitApp ==
    /\ filters = ClearedFilters
    /\ climateData = JArr(<<>>)
    /\ trendData = JNull
    /\ summaryData = JNull
    /\ loading = FALSE
    /\ error = JNull
    /\ localFilters = FromParent(ClearedFilters)
    /\ locations = <<>>
    /\ metrics = <<>>
    /\ formLoading = TRUE
    /\ syncPending = FALSE
    /\ pending = {}
    /\ lastRequest = NoRequest
    /\ nextId = 1
    /\ edits = 0

Init == InitApp /\ NoProbe

Next ==
    \/ \E ok \in BOOLEAN : FetchDropdownsDone(ok)
    \/ SyncEffect
    \/ \E field \in FilterFields : \E value \in FieldOptions(field) : HandleChange(field, value)
    \/ HandleApply
    \/ HandleClear
    \/ \E req \in pending : \E resp \in Responses(req.analysisType) : FetchDataComplete(req, resp)

Spec == Init /\ [][Next]_vars

-----------------------------------------------------------------------------
\* TrendAnalysis applied to drawn props

MetricNames == <<"temperature", "humidity", "precipitation", "wind", "pressure">>

\* The object {names[1]: f[1], ..., names[k]: f[k]}
ObjectOver(f) == JObj([i \in 1..Len(f) |-> Entry(MetricNames[i], f[i])])

TrendSet ==
    { Trend(JStr("increasing"), JNum(5, 10), JStr("celsius"), JNum(9, 10)),
      Trend(JStr("Stable"), JInt(0), JStr("celsius"), JInt(1)),
      UnavailableTrend }

AnomalySet ==
    { <<>>,
      << Anomaly("2023-03-01", JInt(40), JNum(35, 10)),
         Anomaly("2023-01-15", JInt(-5), JInt(3)) >>,
      << Anomaly("2023-02-01", JInt(30), JNum(25, 10)),
         Anomaly("2023-02-02", JInt(31), JNum(301, 100)) >> }

SeasonalitySet ==
    { NoSeasonality,
      Seasonality(JBool(TRUE), JStr("quarterly"), JNum(62, 100),
                  JObj(<< Entry("winter", Season(JNum(25, 10), JStr("stable"))),
                          Entry("summer", Season(JNull, JNull)) >>)),
      Seasonality(JBool(FALSE), JStr("quarterly"), JNum(12, 100),
                  JObj(<< Entry("winter", Season(JNum(25, 10), JStr("stable"))) >>)) }

AnalysisSet ==
    { Analysis(t, a, s) : t \in TrendSet, a \in AnomalySet, s \in SeasonalitySet }

\* The data prop: null, or an object of k analyses
TrendDataSet(k) ==
    {JNull} \cup {ObjectOver(f) : f \in [1..k -> AnalysisSet]}

Unrendered == [kind |-> "unrendered"]

InitTrendAnalysis ==
    /\ InitApp
    /\ probe = "TrendAnalysis"
    /\ \E k \in 0..MaxMetrics : input \in [data : TrendDataSet(k), loading : BOOLEAN]
    /\ output = Unrendered

RenderTrendAnalysis ==
    /\ probe = "TrendAnalysis"
    /\ output = Unrendered
    /\ output' = TrendAnalysis(input.data, input.loading)
    /\ UNCHANGED <<appVars, formVars, netVars, probe, input>>

SpecTrendAnalysis == InitTrendAnalysis /\ [][RenderTrendAnalysis]_vars

-----------------------------------------------------------------------------
\* SummaryTable applied to drawn props: the answer computed for a drawn window
\* of observations, or a drawn payload

ObservationSet == [value : {10, 14}, quality : QualityGrades]

Windows == UNION { [1..n -> ObservationSet] : n \in 0..MaxObs }

FullDistribution ==
    JObj(<< Entry("excellent", JNum(1, 4)), Entry("good", JNum(1, 4)),
            Entry("questionable", JNum(1, 3)), Entry("poor", JNum(1, 6)) >>)

StatsSet ==
    { Stats(JInt(10), JInt(14), JInt(12), JNum(11238, 1000), JStr("celsius"), FullDistribution),
      Stats(JNull, JNull, JNull, JNull, JNull, JNull),
      JObj(<< Entry("min", JInt(-5)), Entry("avg", JNum(-1005, 1000)) >>),
      Stats(JInt(0), JInt(0), JInt(0), JInt(0), JStr("%"), JObj(<<>>)),
      Stats(JInt(1), JInt(2), JNum(3, 2), JNum(4, 3), JStr("mm"),
            JObj(<< Entry("poor", JInt(1)) >>)) }

SummaryDataSet ==
    {JNull} \cup UNION { {ObjectOver(f) : f \in [1..k -> StatsSet]} : k \in 1..MaxMetrics }

SummaryInputs ==
    {[from |-> "window", obs |-> o, data |-> SummaryData(o), loading |-> l] :
        o \in Windows, l \in BOOLEAN}
    \cup {[from |-> "payload", obs |-> <<>>, data |-> d, loading |-> l] :
        d \in SummaryDataSet, l \in BOOLEAN}

InitSummaryTable ==
    /\ InitApp
    /\ probe = "SummaryTable"
    /\ input \in SummaryInputs
    /\ output = Unrendered

RenderSummaryTable ==
    /\ probe = "SummaryTable"
    /\ output = Unrendered
    /\ output' = SummaryTable(input.data, input.loading)
    /\ UNCHANGED <<appVars, formVars, netVars, probe, input>>

SpecSummaryTable == InitSummaryTable /\ [][RenderSummaryTable]_vars

-----------------------------------------------------------------------------
\* api.js.  Strings whose characters matter are sequences of one-character
\* strings, [t |-> "text", chars].

JText(chars) == [t |-> "text", chars |-> chars]

\* API_BASE_URL (5)
API_BASE_URL == <<"/", "a", "p", "i", "/", "v", "1">>

DigitChars == <<"0", "1", "2", "3", "4", "5", "6", "7", "8", "9">>

RECURSIVE Digits(_)
\* The decimal numeral of a natural number
Digits(n) ==
    IF n < 10 THEN << DigitChars[n + 1] >>
    ELSE Digits(n \div 10) \o << DigitChars[(n % 10) + 1] >>

\* String(v), which template literals and encodeURIComponent apply
ToStr(v) ==
    CASE v.t = "text" -> v.chars
      [] v.t = "num" /\ v.d = 1 /\ v.n >= 0 -> Digits(v.n)
      [] v.t = "bool" -> IF v.b THEN <<"t", "r", "u", "e">> ELSE <<"f", "a", "l", "s", "e">>
      [] v.t = "null" -> <<"n", "u", "l", "l">>
      [] OTHER -> <<"u", "n", "d", "e", "f", "i", "n", "e", "d">>

\* The escape of one character outside the unreserved set
PercentCode(c) ==
    CASE c = " " -> <<"%", "2", "0">>
      [] c = "#" -> <<"%", "2", "3">>
      [] c = "%" -> <<"%", "2", "5">>
      [] c = "&" -> <<"%", "2", "6">>
      [] c = "+" -> <<"%", "2", "B">>
      [] c = "/" -> <<"%", "2", "F">>
      [] c = "=" -> <<"%", "3", "D">>
      [] c = "?" -> <<"%", "3", "F">>
      [] OTHER -> << c >>

RECURSIVE EncodeURIComponent(_)
EncodeURIComponent(chars) ==
    IF chars = <<>> THEN <<>>
    ELSE PercentCode(Head(chars)) \o EncodeURIComponent(Tail(chars))

\* The filter of line 12
KeepsParam(entry) == entry.v # JUndef /\ entry.v # JNull /\ entry.v # JText(<<>>)

\* Line 12 as a truthiness test
KeepsParam_Truthy(entry) ==
    /\ KeepsParam(entry)
    /\ entry.v # JInt(0)
    /\ entry.v # JBool(FALSE)

\* The pair of line 13
EncodedPair(entry) ==
    EncodeURIComponent(entry.k) \o <<"=">> \o EncodeURIComponent(ToStr(entry.v))

RECURSIVE Join(_, _)
\* Array.prototype.join
Join(pieces, sep) ==
    IF pieces = <<>> THEN <<>>
    ELSE IF Len(pieces) = 1 THEN pieces[1]
    ELSE pieces[1] \o sep \o Join(Tail(pieces), sep)

\* buildQueryString that drops every falsy value
BuildQueryString_DropFalsy(params) ==
    Join([i \in 1..Len(SelectSeq(ObjectEntries(params), KeepsParam_Truthy)) |->
            EncodedPair(SelectSeq(ObjectEntries(params), KeepsParam_Truthy)[i])],
         <<"&">>)

\* buildQueryString (10-14)
BuildQueryString(params) ==
    Join([i \in 1..Len(SelectSeq(ObjectEntries(params), KeepsParam)) |->
            EncodedPair(SelectSeq(ObjectEntries(params), KeepsParam)[i])],
         <<"&">>)

\* `${API_BASE_URL}${path}${query ? `?${query}` : ""}` (25, 74, 93)
ApiUrl(path, apiFilters) ==
    API_BASE_URL \o path
    \o (IF BuildQueryString(apiFilters) # <<>>
        THEN <<"?">> \o BuildQueryString(apiFilters) ELSE <<>>)

\* The rest of each helper (27-32): return res.json(), or throw res.text(),
\* or rethrow what fetch threw
ApiResult(resp) ==
    IF resp.kind = "reject" THEN [thrown |-> resp.message]
    ELSE IF ~resp.ok THEN [thrown |-> resp.text]
    ELSE [returned |-> resp.json]

ApiResponses ==
    { [kind |-> "reject", message |-> "Failed to fetch"],
      [kind |-> "http", ok |-> FALSE, text |-> "rate limit exceeded"],
      [kind |-> "http", ok |-> TRUE, json |-> JObj(<<>>)] }

ClimatePath == <<"/", "c", "l", "i", "m", "a", "t", "e">>
SummaryPath == <<"/", "s", "u", "m", "m", "a", "r", "y">>
TrendsPath == <<"/", "t", "r", "e", "n", "d", "s">>

\* getClimateData (21-33)
GetClimateData(resp) ==
    /\ probe = "getClimateData"
    /\ output = Unrendered
    /\ output' = [url |-> ApiUrl(ClimatePath, input), result |-> ApiResult(resp)]
    /\ UNCHANGED <<appVars, formVars, netVars, probe, input>>

\* getClimateSummary (70-82)
GetClimateSummary(resp) ==
    /\ probe = "getClimateSummary"
    /\ output = Unrendered
    /\ output' = [url |-> ApiUrl(SummaryPath, input), result |-> ApiResult(resp)]
    /\ UNCHANGED <<appVars, formVars, netVars, probe, input>>

\* getClimateTrends (89-101)
GetClimateTrends(resp) ==
    /\ probe = "getClimateTrends"
    /\ output = Unrendered
    /\ output' = [url |-> ApiUrl(TrendsPath, input), result |-> ApiResult(resp)]
    /\ UNCHANGED <<appVars, formVars, netVars, probe, input>>

\* The helpers applied to drawn params objects
ParamKeys == << <<"m", "e", "t", "r", "i", "c">>, <<"a", "&", "b">>, <<"p", "a", "g", "e">>, <<"q">> >>

ParamValueSet ==
    { JUndef, JNull, JText(<<>>), JInt(0), JBool(FALSE), JInt(12),
      JText(<<"g", "o", "o", "d">>), JText(<<"a", " ", "b", "&", "c", "=", "d">>) }

ParamsSet ==
    UNION { {JObj([i \in 1..k |-> Entry(ParamKeys[i], f[i])]) : f \in [1..k -> ParamValueSet]} :
            k \in 0..MaxParams }

ApiHelpers == {"getClimateData", "getClimateSummary", "getClimateTrends"}

InitApi ==
    /\ InitApp
    /\ probe \in ApiHelpers
    /\ input \in ParamsSet
    /\ output = Unrendered

NextApi ==
    \/ \E resp \in ApiResponses : GetClimateData(resp)
    \/ \E resp \in ApiResponses : GetClimateSummary(resp)
    \/ \E resp \in ApiResponses : GetClimateTrends(resp)

SpecApi == InitApi /\ [][NextApi]_vars

-----------------------------------------------------------------------------
\* Properties of TrendAnalysis, under SpecTrendAnalysis

TrendRendered == probe = "TrendAnalysis" /\ output # Unrendered

\* The props with which the component reaches its return of line 188
TrendShowsData == TrendRendered /\ ~input.loading /\ input.data # JNull

TrendEntries == ObjectEntries(input.data)

TrendFieldsAllNull(analysis) ==
    /\ Get(Get(analysis, "trend"), "direction") = JNull
    /\ Get(Get(analysis, "trend"), "rate") = JNull
    /\ Get(Get(analysis, "trend"), "confidence") = JNull

\* C2: whenever TrendAnalysis shows its data (it is not in its loading state and
\* was handed trend data), it renders one card per metric key, in key order, and
\* the card of every metric whose trend.direction, trend.rate and
\* trend.confidence are all null is present and shows "N/A" for Trend
\* Direction, Rate of Change and Confidence.
C2_NullTrendShownAsNA ==
    TrendShowsData =>
        /\ output.kind = "view"
        /\ Len(output.cards) = Len(TrendEntries)
        /\ \A i \in 1..Len(TrendEntries) :
              /\ output.cards[i].metric = TrendEntries[i].k
              /\ TrendFieldsAllNull(TrendEntries[i].v) =>
                    /\ output.cards[i].direction = << Lit("N/A") >>
                    /\ output.cards[i].rate = << Lit("N/A") >>
                    /\ output.cards[i].confidence = << Lit("N/A") >>

\* A rendered payload of two metrics, the second with an all-null trend
C2_Witness ==
    /\ TrendShowsData
    /\ Len(TrendEntries) = 2
    /\ ~TrendFieldsAllNull(TrendEntries[1].v)
    /\ TrendFieldsAllNull(TrendEntries[2].v)
    /\ output.cards[2].metric = "humidity"
    /\ output.cards[2].confidence = << Lit("N/A") >>

\* C4: whenever TrendAnalysis shows its data, the seasonal block of a metric
\* (period, confidence, per-season avg and trend) is rendered if and only if
\* that metric's seasonality.detected is true; when it is not, nothing of the
\* metric's seasonality is in the tree.
C4_SeasonBlockIffDetected ==
    TrendShowsData =>
        /\ Len(output.seasons) = Len(TrendEntries)
        /\ \A i \in 1..Len(TrendEntries) :
              IF Get(Get(TrendEntries[i].v, "seasonality"), "detected") = JBool(TRUE)
              THEN /\ output.seasons[i].kind = "seasonality"
                   /\ output.seasons[i].metric = TrendEntries[i].k
                   /\ Len(output.seasons[i].pattern)
                        = Len(ObjectEntries(Get(Get(TrendEntries[i].v, "seasonality"), "pattern")))
              ELSE output.seasons[i] = Nothing

\* Two metrics rendered: one detected, one not detected although the payload
\* carries a period and a pattern for it
C4_Witness ==
    /\ TrendShowsData
    /\ Len(TrendEntries) = 2
    /\ Get(Get(TrendEntries[1].v, "seasonality"), "detected") = JBool(TRUE)
    /\ Get(Get(TrendEntries[2].v, "seasonality"), "detected") = JBool(FALSE)
    /\ Get(Get(TrendEntries[2].v, "seasonality"), "period") = JStr("quarterly")
    /\ output.seasons[1].kind = "seasonality"
    /\ Len(output.seasons[1].pattern) = 2
    /\ output.seasons[2] = Nothing

AnomaliesOf(i) == Get(TrendEntries[i].v, "anomalies").items

\* deviation > 3, read off the payload
DeviationAboveThree(anomaly) ==
    Get(anomaly, "deviation").n > 3 * Get(anomaly, "deviation").d

\* C5: whenever TrendAnalysis shows its data, each metric's anomalies are
\* rendered in the order of the anomalies array it received, none dropped and
\* none added, and an anomaly's badge is the red one exactly when its
\* deviation is strictly greater than 3 and the yellow one otherwise,
\* deviation exactly 3 included.
C5_AnomaliesInOrderAndBanded ==
    TrendShowsData =>
        /\ Len(output.anomalies) = Len(TrendEntries)
        /\ \A i \in 1..Len(TrendEntries) :
              IF Len(AnomaliesOf(i)) = 0
              THEN output.anomalies[i] = Nothing
              ELSE /\ output.anomalies[i].kind = "anomalies"
                   /\ output.anomalies[i].metric = TrendEntries[i].k
                   /\ Len(output.anomalies[i].rows) = Len(AnomaliesOf(i))
                   /\ \A j \in 1..Len(AnomaliesOf(i)) :
                         /\ output.anomalies[i].rows[j].date = Get(AnomaliesOf(i)[j], "date").s
                         /\ output.anomalies[i].rows[j].class =
                              IF DeviationAboveThree(AnomaliesOf(i)[j])
                              THEN "bg-red-100 text-red-800"
                              ELSE "bg-yellow-100 text-yellow-800"

\* A rendered metric whose anomalies arrive out of date order, the first above
\* 3 and the second at exactly 3
C5_Witness ==
    /\ TrendShowsData
    /\ Len(TrendEntries) >= 1
    /\ Len(AnomaliesOf(1)) = 2
    /\ Get(AnomaliesOf(1)[2], "deviation") = JInt(3)
    /\ output.anomalies[1].rows[1].date = "2023-03-01"
    /\ output.anomalies[1].rows[1].class = "bg-red-100 text-red-800"
    /\ output.anomalies[1].rows[2].date = "2023-01-15"
    /\ output.anomalies[1].rows[2].class = "bg-yellow-100 text-yellow-800"

-----------------------------------------------------------------------------
\* Properties of the summary and of SummaryTable, under SpecSummaryTable

SummaryRendered == probe = "SummaryTable" /\ output # Unrendered

\* The props with which the component reaches its return of line 17
SummaryShowsData ==
    /\ SummaryRendered
    /\ ~input.loading
    /\ input.data # JNull
    /\ Len(ObjectEntries(input.data)) > 0

SummaryEntries == ObjectEntries(input.data)

\* The fraction a distribution gives a grade, 0 when it does not name it
FractionOf(dist, grade) == IF HasKey(dist, grade) THEN Get(dist, grade) ELSE JInt(0)

RatAdd(a, b) == JNum(a.n * b.d + b.n * a.d, a.d * b.d)

FractionSum(dist) ==
    RatAdd(RatAdd(FractionOf(dist, "excellent"), FractionOf(dist, "good")),
           RatAdd(FractionOf(dist, "questionable"), FractionOf(dist, "poor")))

\* text is the numeral with `digits` fraction digits nearest to x
NearestNumeral(part, x, digits) ==
    /\ DOMAIN part = {"fixed", "digits"}
    /\ part.digits = digits
    /\ 2 * (part.fixed * x.d - Pow10(digits) * x.n) <= x.d
    /\ 2 * (Pow10(digits) * x.n - part.fixed * x.d) <= x.d

\* C6: for every non-empty window of observations, the fractions of
\* quality_distribution over the four grades sum to 1, each fraction is the
\* weight of the observations of that grade divided by the weight of all
\* observations and lies in [0, 1], and SummaryTable, once it shows the answer,
\* draws for each grade a bar that is the fraction to two decimals and lies
\* within the y axis of the chart, 0 to 1.
C6_QualityFractionsSumToOne ==
    (probe = "SummaryTable" /\ input.from = "window" /\ input.obs # <<>>) =>
        LET dist == Get(SummaryEntries[1].v, "quality_distribution") IN
        /\ FractionSum(dist).n = FractionSum(dist).d
        /\ \A g \in QualityGrades :
              /\ FractionOf(dist, g).n >= 0
              /\ FractionOf(dist, g).n <= FractionOf(dist, g).d
              /\ FractionOf(dist, g).n * SumWeights(input.obs)
                    = GradeWeight(input.obs, g) * FractionOf(dist, g).d
        /\ SummaryShowsData =>
              /\ output.kind = "table"
              /\ output.chart.kind = "bar"
              /\ \A k \in 1..4 :
                    /\ Len(output.chart.datasets[k].data) = 1
                    /\ output.chart.datasets[k].data[1].n >= 0
                    /\ output.chart.datasets[k].data[1].n
                          <= output.chart.yMax * output.chart.datasets[k].data[1].d
                    /\ NearestNumeral(
                          Fixed(output.chart.datasets[k].data[1].n, 2),
                          FractionOf(dist, GradeOrder[k]), 2)
                    /\ output.chart.datasets[k].data[1].d = 100

\* The answer for a window of three observations of three grades, drawn
C6_Witness ==
    /\ SummaryShowsData
    /\ input.from = "window"
    /\ Len(input.obs) = 3
    /\ {input.obs[i].quality : i \in 1..3} = {"excellent", "questionable", "poor"}
    /\ output.chart.datasets[3].data[1] = JNum(28, 100)
    /\ output.chart.datasets[2].data[1] = JNum(0, 100)

NumericFields == {"min", "max", "avg", "weighted_avg"}

\* C7: whenever SummaryTable shows its data, it renders exactly one row per
\* metric key, in key order, whose cells come from that metric's min, max, avg,
\* weighted_avg, unit and quality_distribution: a numeric field that is null or
\* undefined renders as "-" and any other as its two-decimal numeral, a null or
\* undefined unit renders as "-", and the quality chart is labelled with
\* exactly the metrics whose quality_distribution is present, a grade the
\* distribution does not name being drawn as 0.
C7_SummaryRowsFollowPayload ==
    SummaryShowsData =>
        /\ output.kind = "table"
        /\ Len(output.rows) = Len(SummaryEntries)
        /\ \A i \in 1..Len(SummaryEntries) :
              /\ output.rows[i].metric = SummaryEntries[i].k
              /\ \A f \in NumericFields :
                    IF Get(SummaryEntries[i].v, f).t \in {"null", "undefined"}
                    THEN output.rows[i][f] = Lit("-")
                    ELSE NearestNumeral(output.rows[i][f], Get(SummaryEntries[i].v, f), 2)
              /\ output.rows[i].unit =
                    IF Get(SummaryEntries[i].v, "unit").t \in {"null", "undefined"}
                    THEN Lit("-") ELSE Lit(Get(SummaryEntries[i].v, "unit").s)
              /\ IF Get(SummaryEntries[i].v, "quality_distribution").t = "object"
                 THEN Len(output.rows[i].quality)
                        = Len(ObjectEntries(Get(SummaryEntries[i].v, "quality_distribution")))
                 ELSE output.rows[i].quality = << Lit("-") >>
        /\ LET present == {i \in 1..Len(SummaryEntries) :
                              Get(SummaryEntries[i].v, "quality_distribution").t = "object"}
           IN IF present = {}
              THEN output.chart = Nothing
              ELSE /\ output.chart.kind = "bar"
                   /\ Len(output.chart.labels) = Cardinality(present)
                   /\ \A i \in present : \E j \in 1..Len(output.chart.labels) :
                         /\ output.chart.labels[j] = SummaryEntries[i].k
                         /\ \A k \in 1..4 :
                               IF HasKey(Get(SummaryEntries[i].v, "quality_distribution"), GradeOrder[k])
                               THEN NearestNumeral(
                                      Fixed(output.chart.datasets[k].data[j].n, 2),
                                      Get(Get(SummaryEntries[i].v, "quality_distribution"), GradeOrder[k]),
                                      2)
                               ELSE output.chart.datasets[k].data[j] = JNum(0, 100)

\* Two metrics drawn: the first with fields missing and no distribution, the
\* second with a distribution that names only "poor"
C7_Witness ==
    /\ SummaryShowsData
    /\ input.from = "payload"
    /\ Len(SummaryEntries) = 2
    /\ Get(SummaryEntries[1].v, "max") = JUndef
    /\ Get(SummaryEntries[1].v, "quality_distribution") = JUndef
    /\ output.rows[1].min = Fixed(-500, 2)
    /\ output.rows[1].max = Lit("-")
    /\ output.rows[1].avg = Fixed(-101, 2)
    /\ output.rows[1].unit = Lit("-")
    /\ output.chart # Nothing
    /\ output.chart.labels = << "humidity" >>
    /\ output.chart.datasets[1].data = << JNum(0, 100) >>
    /\ output.chart.datasets[4].data = << JNum(100, 100) >>

-----------------------------------------------------------------------------
\* Properties of App with Filters, under Spec

\* The step is the continuation of fetchData call req on response resp
Completes(req, resp) == FetchDataComplete(req, resp)

OkResponse(resp) == resp.kind = "http" /\ resp.ok

\* The parsed body has no data field, or its data is [] or {}
EmptyResult(body) ==
    /\ body.t = "object"
    /\ \/ ~HasKey(body, "data")
       \/ Get(body, "data") = JArr(<<>>)
       \/ Get(body, "data") = JObj(<<>>)

\* The parsed body carries a non-empty array or an object with keys
NonEmptyResult(body) ==
    /\ body.t = "object"
    /\ HasKey(body, "data")
    /\ \/ Get(body, "data").t = "array" /\ Len(Get(body, "data").items) > 0
       \/ Get(body, "data").t = "object" /\ Len(Get(body, "data").entries) > 0

NoSummaryData == [kind |-> "empty", text |-> "No summary data."]

\* C1: whenever a request in flight is answered in a step with an ok response
\* whose body has no data field, or an empty array or an object with no keys
\* as data, fetchData leaves
\* error = "No data available for the selected filters.", trendData = null,
\* summaryData = null and climateData = []; SummaryTable, handed the
\* summaryData and loading flag of that state, or an object with no keys,
\* renders "No summary data." and no row.
C1_EmptyResultIsNoData ==
    [][ \A req \in pending \ pending' : \A resp \in Responses(req.analysisType) :
          (OkResponse(resp) /\ EmptyResult(resp.json) /\ Completes(req, resp)) =>
              /\ error' = JStr("No data available for the selected filters.")
              /\ trendData' = JNull
              /\ summaryData' = JNull
              /\ climateData' = JArr(<<>>)
              /\ SummaryTable(summaryData', loading') = NoSummaryData
              /\ SummaryTable(JObj(<<>>), loading') = NoSummaryData ]_vars

\* A summary request has been answered with nothing: the message is up and
\* the table shows "No summary data."
C1_Witness ==
    /\ lastRequest.endpoint = "/api/v1/summary"
    /\ pending = {}
    /\ error = JStr(NoDataMessage)
    /\ filters.analysisType = "weighted"
    /\ summaryData = JNull
    /\ SummaryTable(summaryData, loading) = NoSummaryData

\* C3: every request fetchData issues goes to /api/v1/summary exactly when the
\* applied analysisType is "weighted", to /api/v1/trends exactly when it is
\* "trends" and to /api/v1/climate otherwise; and on an ok response with
\* non-empty data the continuation of the request answered in the step stores
\* that data in summaryData, trendData or climateData respectively.
C3_AnalysisTypeSelectsComputation ==
    [][ /\ lastRequest' # lastRequest =>
              /\ lastRequest'.endpoint = "/api/v1/summary" <=> filters'.analysisType = "weighted"
              /\ lastRequest'.endpoint = "/api/v1/trends" <=> filters'.analysisType = "trends"
              /\ lastRequest'.endpoint = "/api/v1/climate"
                    <=> filters'.analysisType \notin {"weighted", "trends"}
              /\ \E req \in pending' \ pending :
                    /\ req.id = lastRequest'.id
                    /\ req.analysisType = filters'.analysisType
        /\ \A req \in pending \ pending' : \A resp \in Responses(req.analysisType) :
              (OkResponse(resp) /\ NonEmptyResult(resp.json) /\ Completes(req, resp)) =>
                  CASE req.analysisType = "weighted" -> summaryData' = Get(resp.json, "data")
                    [] req.analysisType = "trends" -> trendData' = Get(resp.json, "data")
                    [] OTHER -> climateData' = Get(resp.json, "data") ]_vars

\* A weighted request went to /api/v1/summary and its answer is in summaryData
C3_Witness ==
    /\ filters.analysisType = "weighted"
    /\ lastRequest.endpoint = "/api/v1/summary"
    /\ pending = {}
    /\ summaryData \in SummaryPayloads

\* The values of parameter `name` in the query of a request
ParamValues(request, name) ==
    {request.query[i][2] : i \in {j \in 1..Len(request.query) : request.query[j][1] = name}}

ParamCount(request, name) ==
    Cardinality({j \in 1..Len(request.query) : request.query[j][1] = name})

\* C8: in every request the UI issues, after any sequence of filter edits,
\* Apply and Clear, quality_threshold is omitted or occurs once with one of
\* excellent, good, questionable, poor as its value.
C8_QualityThresholdInClosedSet ==
    lastRequest.id > 0 =>
        /\ ParamCount(lastRequest, "quality_threshold") <= 1
        /\ ParamValues(lastRequest, "quality_threshold")
              \subseteq {"excellent", "good", "questionable", "poor"}

\* A second request, carrying a grade, issued after an edit
C8_Witness ==
    /\ lastRequest.id = 2
    /\ edits > 0
    /\ ParamValues(lastRequest, "quality_threshold") = {"poor"}

\* The form accepts an edit
CanEdit == ~syncPending /\ edits < MaxEdits

\* C9: each of the four quality grades can be chosen as the quality threshold:
\* whenever the form accepts an edit, the Quality Threshold select offers every
\* grade of excellent, good, questionable, poor, so that handleChange can put
\* it into the filters the next Apply sends.
C9_EveryGradeSelectable ==
    CanEdit => \A grade \in QualityGrades : ENABLED HandleChange("qualityThreshold", grade)

\* The documented query parameters and the filter field each one carries
DocumentedParams ==
    { [name |-> "location_id", field |-> "locationId"],
      [name |-> "start_date", field |-> "startDate"],
      [name |-> "end_date", field |-> "endDate"],
      [name |-> "metric", field |-> "metric"],
      [name |-> "quality_threshold", field |-> "qualityThreshold"] }

ParamNames(request) == {request.query[i][1] : i \in 1..Len(request.query)}

\* C11: the request fetchData issued last carries only documented parameters:
\* its parameter names are among location_id, start_date, end_date, metric and
\* quality_threshold; each of them occurs once, with the field's value, when
\* the applied filter field is non-empty and not at all when it is empty; and
\* the analysis type is never a parameter.
C11_OnlyDocumentedParams ==
    lastRequest.id > 0 =>
        /\ ParamNames(lastRequest) \subseteq {d.name : d \in DocumentedParams}
        /\ \A d \in DocumentedParams :
              IF filters[d.field] # ""
              THEN /\ ParamCount(lastRequest, d.name) = 1
                   /\ ParamValues(lastRequest, d.name) = {filters[d.field]}
              ELSE ParamCount(lastRequest, d.name) = 0
        /\ ParamNames(lastRequest) \cap {"analysisType", "analysis_type"} = {}

\* A request with two of the five parameters set and three left out
C11_Witness ==
    /\ lastRequest.id > 0
    /\ filters.metric = "temperature"
    /\ filters.startDate = "2023-01-01"
    /\ filters.locationId = ""
    /\ lastRequest.query = << <<"start_date", "2023-01-01">>, <<"metric", "temperature">> >>

\* The parent's six fields, a falsy one replaced by its default
ParentWithDefaults ==
    [f \in FilterFields |->
        IF filters[f] # "" THEN filters[f]
        ELSE IF f = "analysisType" THEN "raw" ELSE ""]

\* C12: the form follows the parent.  A step that changes the parent's filters
\* (Apply, Clear) leaves the sync effect due; while it is due the next step is
\* the sync, which sets localFilters to the parent's six fields with '' for a
\* falsy field and 'raw' for a falsy analysisType, which equals the parent's
\* filters; and from then on every step that is not a field edit and not
\* another Apply or Clear keeps localFilters equal to the parent's filters.
C12_LocalFiltersFollowParent ==
    [][ /\ filters' # filters => syncPending'
        /\ syncPending =>
              /\ ~syncPending'
              /\ filters' = filters
              /\ localFilters' = ParentWithDefaults
              /\ localFilters' = filters'
        /\ (~syncPending /\ ~syncPending' /\ edits' = edits /\ localFilters = filters)
              => localFilters' = filters' ]_vars

\* The sync has run after an Apply of edited filters, and a response has come
\* in since: the form still shows the applied filters
C12_Witness ==
    /\ ~syncPending
    /\ lastRequest.id > 0
    /\ pending = {}
    /\ filters.analysisType = "trends"
    /\ filters.metric = "temperature"
    /\ localFilters = filters

\* Every request issued so far has been answered
AllAnswered == lastRequest.id > 0 /\ pending = {}

\* C13: once every issued request has been answered, a populated dataset is
\* the one of the analysis type applied last: trendData is non-null only under
\* "trends", summaryData only under "weighted", and climateData is non-empty
\* only under the raw view, so that no late answer of an earlier request is
\* what the App ends up holding.
C13_LatestRequestWins ==
    AllAnswered =>
        /\ trendData # JNull => filters.analysisType = "trends"
        /\ summaryData # JNull => filters.analysisType = "weighted"
        /\ climateData # JArr(<<>>) => filters.analysisType \notin {"trends", "weighted"}

\* C14: an error message and data are never held together: whenever error is
\* non-null, trendData and summaryData are null and climateData is empty.
C14_ErrorExcludesData ==
    error # JNull =>
        /\ trendData = JNull
        /\ summaryData = JNull
        /\ climateData = JArr(<<>>)

\* The datasets that hold a result
Populated ==
    {d \in {"trendData", "summaryData", "climateData"} :
        CASE d = "trendData" -> trendData # JNull
          [] d = "summaryData" -> summaryData # JNull
          [] OTHER -> climateData # JArr(<<>>)}

\* C15: at most one of the three datasets is populated: of trendData non-null,
\* summaryData non-null and climateData non-empty, no two hold at once.
C15_AtMostOneDataset == Cardinality(Populated) <= 1

\* Two requests have been answered and trendData alone is populated; it is
\* the answer of the first request, which replaced whatever the second left
C15_Witness ==
    /\ AllAnswered
    /\ lastRequest.id = 2
    /\ lastRequest.endpoint # "/api/v1/trends"
    /\ error = JNull
    /\ Populated = {"trendData"}

-----------------------------------------------------------------------------
\* Properties of the api.js helpers, under SpecApi

RECURSIVE SplitOn(_, _)
\* The pieces of chars between occurrences of the character sep
SplitOn(chars, sep) ==
    IF \A i \in 1..Len(chars) : chars[i] # sep THEN << chars >>
    ELSE LET at == CHOOSE i \in 1..Len(chars) :
                      chars[i] = sep /\ \A j \in 1..(i - 1) : chars[j] # sep
         IN << SubSeq(chars, 1, at - 1) >> \o SplitOn(SubSeq(chars, at + 1, Len(chars)), sep)

\* The character a percent escape stands for
Unescape(hi, lo) ==
    CASE hi = "2" /\ lo = "0" -> " "
      [] hi = "2" /\ lo = "3" -> "#"
      [] hi = "2" /\ lo = "5" -> "%"
      [] hi = "2" /\ lo = "6" -> "&"
      [] hi = "2" /\ lo = "B" -> "+"
      [] hi = "2" /\ lo = "F" -> "/"
      [] hi = "3" /\ lo = "D" -> "="
      [] hi = "3" /\ lo = "F" -> "?"
      [] OTHER -> "invalid"

RECURSIVE DecodeURIComponent(_)
DecodeURIComponent(chars) ==
    IF chars = <<>> THEN <<>>
    ELSE IF Head(chars) = "%" /\ Len(chars) >= 3
    THEN << Unescape(chars[2], chars[3]) >> \o DecodeURIComponent(SubSeq(chars, 4, Len(chars)))
    ELSE << Head(chars) >> \o DecodeURIComponent(Tail(chars))

ApiCalled == probe \in ApiHelpers /\ output # Unrendered

\* The endpoint path of each helper, character by character
PathChars(helper) ==
    CASE helper = "getClimateData" -> <<"/", "a", "p", "i", "/", "v", "1", "/", "c", "l", "i", "m", "a", "t", "e">>
      [] helper = "getClimateSummary" -> <<"/", "a", "p", "i", "/", "v", "1", "/", "s", "u", "m", "m", "a", "r", "y">>
      [] helper = "getClimateTrends" -> <<"/", "a", "p", "i", "/", "v", "1", "/", "t", "r", "e", "n", "d", "s">>

\* The entries whose value is not undefined, not null and not ""
KeptEntries ==
    SelectSeq(ObjectEntries(input),
              LAMBDA e : e.v.t # "undefined" /\ e.v.t # "null"
                         /\ ~(e.v.t = "text" /\ Len(e.v.chars) = 0))

\* C10: the URL a helper requests is its endpoint path, followed, if and only
\* if some entry of params has a value that is not undefined, null or "", by
\* "?" and one key=value pair per such entry (0 and false included), in entry
\* order, joined by "&", key and value percent-encoded so that each pair
\* decodes back to the entry's key and the string of its value.
C10_QueryStringKeepsSetParams ==
    ApiCalled =>
        LET path == PathChars(probe)
            url == output.url
        IN /\ Len(url) >= Len(path)
           /\ SubSeq(url, 1, Len(path)) = path
           /\ (\E i \in 1..Len(url) : url[i] = "?") <=> Len(KeptEntries) > 0
           /\ IF Len(KeptEntries) = 0
              THEN url = path
              ELSE /\ url[Len(path) + 1] = "?"
                   /\ LET pairs == SplitOn(SubSeq(url, Len(path) + 2, Len(url)), "&")
                      IN /\ Len(pairs) = Len(KeptEntries)
                         /\ \A i \in 1..Len(KeptEntries) :
                               /\ Len(SplitOn(pairs[i], "=")) = 2
                               /\ DecodeURIComponent(SplitOn(pairs[i], "=")[1]) = KeptEntries[i].k
                               /\ DecodeURIComponent(SplitOn(pairs[i], "=")[2])
                                     = ToStr(KeptEntries[i].v)

\* getClimateTrends({metric: 0, "a&b": "a b&c=d"}) has requested
\* /api/v1/trends?metric=0&a%26b=a%20b%26c%3Dd
C10_Witness ==
    /\ ApiCalled
    /\ probe = "getClimateTrends"
    /\ Len(ObjectEntries(input)) = 2
    /\ ObjectEntries(input)[1].v = JInt(0)
    /\ ObjectEntries(input)[2].v = JText(<<"a", " ", "b", "&", "c", "=", "d">>)
    /\ output.url = <<"/", "a", "p", "i", "/", "v", "1", "/", "t", "r", "e", "n", "d", "s", "?", "m", "e", "t", "r", "i", "c", "=", "0", "&", "a", "%", "2", "6", "b", "=", "a", "%", "2", "0", "b", "%", "2", "6", "c", "%", "3", "D", "d">>

====
